---- MODULE Spec2Model ----
(***************************************************************************)
(* AvantesSpectrometer (src/spectrometer.py): the driver object, the       *)
(* module-level store `globals`, and                                       *)
(* the vendor SDK (avaspec) seen as a device that records the calls it     *)
(* gets.                                                                   *)
(*                                                                         *)
(* Conventions.                                                            *)
(*  - A Python value that may be None is a sequence: None is <<>> and a    *)
(*    value v is <<v>>.                                                    *)
(*  - Times are integers in microseconds: the default integration time     *)
(*    0.022 ms is 22.                                                      *)
(*  - An array (the raw intensity buffer, the wavelength calibration, a    *)
(*    slice of either) is a window [src, off, len] onto the device data it *)
(*    was read from: its element i (from 0) is element off + i of src.     *)
(*  - One caller, one thread: a method runs to its end before the next one *)
(*    starts.  measure and measure_timing take one step per SDK call, so   *)
(*    that the device can finish a scan, or not, between two polls.        *)
(***************************************************************************)
EXTENDS Integers, Sequences, FiniteSets, TLC

VARIABLES
    dev_handle, pixels, wavelength, serial_number, measconfig, \* self.*
    globals,        \* the module `globals`: dev_handle, pixels, wavelength
    devices,        \* what AVS_GetList returns
    committed,      \* the last (handle, config) given to AVS_PrepareMeasure
    scanDone,       \* the device's ready flag, read by AVS_PollScan
    pc,             \* "idle" | "polling" | "reading" | "raising"
    op,             \* the method running or last run, with its arguments
    dataready, scans, stopscanning,   \* locals of measure / measure_timing
    calls,          \* what the method running or last run has called
    ret,            \* what it returned
    out,            \* whether close printed its message
    exc,            \* the exception it raised ("none": it returned)
    closed,         \* history: close() was called on an initialised driver
    scopeDepth      \* the with-blocks on this driver the caller is inside

vars == <<dev_handle, pixels, wavelength, serial_number, measconfig, globals,
          devices, committed, scanDone, pc, op, dataready, scans,
          stopscanning, calls, ret, out, exc, closed, scopeDepth>>

selfVars == <<dev_handle, pixels, wavelength, serial_number, measconfig>>
loopVars == <<dataready, scans, stopscanning>>

\* ---------------------------------------------------------------- bounds

\* AVS_PollScan calls counted per measurement; past it the count stays.
MaxPolls == 2
\* with-blocks nested on the one driver.
MaxScopeDepth == 1
\* Timestamps (and so distinct raw buffers) the device hands out: 0..MaxFrame.
MaxFrame == 1

\* Arguments the caller passes.
Durations == {0, 50}
ScanCounts == {0, 5, 10}
Modes == {0, 1}
ConfigArgs == {"default", "other"}

\* Detectors the simulated SDK may enumerate: a 2048-pixel one, a 1024-pixel one.
Descriptors == { [SerialNumber |-> "SN2048", NrPixels |-> 2048, handle |-> 1],
                 [SerialNumber |-> "SN1024", NrPixels |-> 1024, handle |-> 2] }
DeviceLists == {<<>>} \cup { <<d>> : d \in Descriptors }

\* ------------------------------------------------------------- constants

ROI_START == 395
ROI_STOP == 1660
DefaultIntegrationTime == 22
DefaultNrAverages == 200
\* measure_timing asking for two scans.
nummeas_twice == 1 + 1
nummeas == 1
SleepUs == 1000

\* ---------------------------------------------------------------- values

None == <<>>
Some(v) == <<v>>
Min(a, b) == IF a < b THEN a ELSE b
Max(a, b) == IF a < b THEN b ELSE a

\* The window onto a whole array of n elements read from src.
Array(src, n) == [src |-> src, off |-> 0, len |-> n]

\* A slice that takes its stop index in: the elements a .. b.
PySlice_inclusive(s, a, b) ==
    LET lo == Min(a, s.len)
        hi == Min(b + 1, s.len)
    IN  [src |-> s.src, off |-> s.off + lo, len |-> Max(0, hi - lo)]

\* Python's s[a:b] for 0 <= a <= b: the elements a .. b-1 that exist.
PySlice(s, a, b) ==
    LET lo == Min(a, s.len)
        hi == Min(b, s.len)
    IN  [src |-> s.src, off |-> s.off + lo, len |-> Max(0, hi - lo)]

\* calls: what one method has called, and how often.
NoCalls == [activate |-> 0, commit |-> 0, start |-> 0, poll |-> 0, read |-> 0,
            lambda |-> 0, close |-> 0, release |-> 0]

Call(name, value, cfg) == [name |-> name, value |-> value, cfg |-> cfg]

\* MeasConfigType(): a ctypes structure, all fields zero.
MeasConfigType ==
    [m_StartPixel |-> 0, m_StopPixel |-> 0, m_IntegrationTime |-> 0,
     m_IntegrationDelay |-> 0, m_NrAverages |-> 0,
     m_CorDynDark_m_Enable |-> 0, m_CorDynDark_m_ForgetPercentage |-> 0,
     m_Smoothing_m_SmoothPix |-> 0, m_Smoothing_m_SmoothModel |-> 0,
     m_SaturationDetection |-> 0, m_Trigger_m_Mode |-> 0,
     m_Trigger_m_Source |-> 0, m_Trigger_m_SourceType |-> 0,
     m_Control_m_StrobeControl |-> 0, m_Control_m_LaserDelay |-> 0,
     m_Control_m_LaserWidth |-> 0, m_Control_m_LaserWaveLength |-> 0,
     m_Control_m_StoreToRam |-> 0]

\* measconfig=: a MeasConfigType of the caller's own, fresh at each call ("other"),
\* or nothing, which means self.measconfig ("default").  The object init
\* returned is self.measconfig itself: passing it is "default".
otherconfig == MeasConfigType

_create_measurement_config(npixels) ==
    [MeasConfigType EXCEPT !.m_StartPixel = 0,
                           !.m_StopPixel = npixels - 1,
                           !.m_IntegrationTime = DefaultIntegrationTime,
                           !.m_NrAverages = DefaultNrAverages]

\* ------------------------------------------------------------------ init

GlobalsInit == [dev_handle |-> None, pixels |-> None, wavelength |-> None]

Init ==
    /\ dev_handle = None
    /\ pixels = None
    /\ wavelength = None
    /\ serial_number = None
    /\ measconfig = None
    /\ globals = GlobalsInit
    /\ devices \in DeviceLists
    /\ committed = None
    /\ scanDone = FALSE
    /\ pc = "idle"
    /\ op = Call("none", 0, "default")
    /\ dataready = FALSE
    /\ scans = 0
    /\ stopscanning = FALSE
    /\ calls = NoCalls
    /\ ret = None
    /\ out = FALSE
    /\ exc = "none"
    /\ closed = FALSE
    /\ scopeDepth = 0

\* A method ends by raising e: inside a with-block the exception is in flight
\* until __exit__ has run; outside, it reaches the caller.
Raise(e) ==
    /\ exc' = e
    /\ pc' = IF scopeDepth > 0 THEN "raising" ELSE "idle"

Return ==
    /\ exc' = "none"
    /\ pc' = "idle"

init ==
    /\ pc = "idle"
    /\ op' = Call("init", 0, "default")
    /\ out' = FALSE
    /\ UNCHANGED <<devices, scanDone, loopVars, closed, scopeDepth>>
    /\ IF devices = <<>>
       THEN \* mylist[0] raises IndexError
            /\ Raise("IndexError")
            /\ calls' = NoCalls
            /\ ret' = None
            /\ UNCHANGED <<selfVars, globals, committed>>
       ELSE LET d == devices[1]
                cfg == _create_measurement_config(d.NrPixels)
                cal == Array(d.SerialNumber, d.NrPixels)
            IN  /\ serial_number' = Some(d.SerialNumber)
                /\ dev_handle' = Some(d.handle)
                /\ pixels' = Some(d.NrPixels)
                /\ wavelength' = Some(cal)
                /\ globals' = [dev_handle |-> Some(d.handle),
                               pixels |-> Some(d.NrPixels),
                               wavelength |-> Some(cal)]
                /\ measconfig' = Some(cfg)
                /\ committed' = Some([handle |-> Some(d.handle), config |-> cfg])
                /\ calls' = [NoCalls EXCEPT !.activate = 1, !.lambda = 1, !.commit = 1]
                /\ ret' = Some([measconfig |-> cfg, serial_number |-> d.SerialNumber])
                /\ Return

\* ------------------------------------------------------- the SDK's data

\* The descriptor of the device a handle was activated for, if any.
DeviceOf(h) == { d \in Descriptors : \E i \in 1..Len(devices) : devices[i] = d /\ h = Some(d.handle) }

\* AVS_GetLambda(h): one wavelength per pixel of the device; nothing for a
\* handle that no AVS_Activate returned.
AVS_GetLambda(h) ==
    IF DeviceOf(h) = {} THEN Array("invalid", 0)
    ELSE LET d == CHOOSE d \in DeviceOf(h) : TRUE
         IN  Array(d.SerialNumber, d.NrPixels)

\* AVS_GetScopeData(h): (timestamp, one raw intensity per pixel).
AVS_GetScopeData(h, t) ==
    IF DeviceOf(h) = {} THEN <<t, Array("invalid", 0)>>
    ELSE LET d == CHOOSE d \in DeviceOf(h) : TRUE
         IN  <<t, Array(<<"scan", t>>, d.NrPixels)>>

\* ------------------------------------------------------------ wavelengths

wavelengths ==
    /\ pc = "idle"
    /\ op' = Call("wavelengths", 0, "default")
    /\ LET w == AVS_GetLambda(dev_handle)
       IN  ret' = Some([full |-> w, trimmed |-> PySlice(w, ROI_START, ROI_STOP)])
    /\ calls' = [NoCalls EXCEPT !.lambda = 1]
    /\ out' = FALSE
    /\ Return
    /\ UNCHANGED <<selfVars, globals, devices, committed, scanDone,
                   loopVars, closed, scopeDepth>>

\* ------------------------------------------------- measure, measure_timing

\* AVS_Measure(self.dev_handle, 0, 1), then dataready = False.
AVS_Measure(c) ==
    /\ calls' = [c EXCEPT !.start = @ + 1]
    /\ scanDone' = FALSE
    /\ dataready' = FALSE
    /\ pc' = "polling"

measure ==
    /\ pc = "idle"
    /\ op' = Call("measure", 0, "default")
    /\ AVS_Measure(NoCalls)
    /\ ret' = None
    /\ out' = FALSE
    /\ exc' = "none"
    /\ UNCHANGED <<selfVars, globals, devices, committed, scans,
                   stopscanning, closed, scopeDepth>>

measure_timing ==
    \E c \in ConfigArgs :
        /\ pc = "idle"
        /\ op' = Call("measure_timing", 0, c)
        /\ scans' = 0
        /\ stopscanning' = FALSE
        /\ AVS_Measure(NoCalls)
        /\ ret' = None
        /\ out' = FALSE
        /\ exc' = "none"
        /\ UNCHANGED <<selfVars, globals, devices, committed,
                       closed, scopeDepth>>

\* The device finishes the scan; nothing makes it.
ScanCompletes ==
    /\ pc = "polling"
    /\ ~scanDone
    /\ scanDone' = TRUE
    /\ UNCHANGED <<selfVars, globals, devices, committed, pc, op,
                   loopVars, calls, ret, out, exc, closed, scopeDepth>>

\* One turn of `while not dataready`: dataready = AVS_PollScan(...); sleep.
\* When it leaves the loop, measure_timing counts the scan.
PollScan ==
    /\ pc = "polling"
    /\ dataready' = scanDone
    /\ calls' = [calls EXCEPT !.poll = Min(@ + 1, MaxPolls)]
    /\ pc' = IF scanDone THEN "reading" ELSE "polling"
    /\ IF scanDone /\ op.name = "measure_timing"
       THEN /\ scans' = scans + 1
            /\ stopscanning' = (scans + 1 >= nummeas)
       ELSE UNCHANGED <<scans, stopscanning>>
    /\ UNCHANGED <<selfVars, globals, devices, committed, scanDone,
                   op, ret, out, exc, closed, scopeDepth>>

\* ret = AVS_GetScopeData(...) and what follows it.
GetScopeData ==
    \E t \in 0..MaxFrame :
        LET r == AVS_GetScopeData(dev_handle, t)
            c == [calls EXCEPT !.read = @ + 1]
            cfg == IF op.cfg = "default" THEN measconfig ELSE Some(otherconfig)
            t_dif == calls.poll * SleepUs
        IN  /\ pc = "reading"
            /\ UNCHANGED <<selfVars, globals, devices, committed,
                           op, out, closed, scopeDepth, scans, stopscanning>>
            /\ IF op.name = "measure"
               THEN /\ calls' = c
                    /\ ret' = Some([timestamp |-> r[1],
                                    data |-> PySlice(r[2], ROI_START, ROI_STOP)])
                    /\ Return
                    /\ UNCHANGED <<scanDone, dataready>>
               ELSE IF cfg = None
               THEN \* measconfig.m_IntegrationTime on None
                    /\ calls' = c
                    /\ ret' = None
                    /\ Raise("AttributeError")
                    /\ UNCHANGED <<scanDone, dataready>>
               ELSE IF ~stopscanning
               THEN /\ AVS_Measure(c)
                    /\ UNCHANGED <<ret, exc>>
               ELSE /\ calls' = c
                    /\ ret' = Some([timestamp |-> r[1],
                                    data |-> PySlice(r[2], ROI_START, ROI_STOP),
                                    net_dif |-> t_dif - cfg[1].m_IntegrationTime
                                                        * cfg[1].m_NrAverages,
                                    t_dif |-> t_dif])
                    /\ Return
                    /\ UNCHANGED <<scanDone, dataready>>

\* ---------------------------------------------------------------- setters

\* A setter that commits before it assigns: the device gets the old value.
SetField_stale(name, field, value, c) ==
    /\ pc = "idle"
    /\ op' = Call(name, value, c)
    /\ out' = FALSE
    /\ ret' = None
    /\ UNCHANGED <<dev_handle, pixels, wavelength, serial_number, globals,
                   devices, scanDone, loopVars, closed, scopeDepth>>
    /\ IF c = "default" /\ measconfig = None
       THEN /\ Raise("AttributeError")
            /\ calls' = NoCalls
            /\ UNCHANGED <<measconfig, committed>>
       ELSE LET old == IF c = "default" THEN measconfig[1] ELSE otherconfig
                new == [old EXCEPT ![field] = value]
            IN  /\ measconfig' = IF c = "default" THEN Some(new) ELSE measconfig
                /\ committed' = Some([handle |-> dev_handle, config |-> old])
                /\ calls' = [NoCalls EXCEPT !.commit = 1]
                /\ Return

\* measconfig.<field> = value; AVS_PrepareMeasure(self.dev_handle, measconfig)
SetField(name, field, value, c) ==
    /\ pc = "idle"
    /\ op' = Call(name, value, c)
    /\ out' = FALSE
    /\ ret' = None
    /\ UNCHANGED <<dev_handle, pixels, wavelength, serial_number, globals,
                   devices, scanDone, loopVars, closed, scopeDepth>>
    /\ IF c = "default" /\ measconfig = None
       THEN \* setting an attribute of None
            /\ Raise("AttributeError")
            /\ calls' = NoCalls
            /\ UNCHANGED <<measconfig, committed>>
       ELSE LET old == IF c = "default" THEN measconfig[1] ELSE otherconfig
                new == [old EXCEPT ![field] = value]
            IN  /\ measconfig' = IF c = "default" THEN Some(new) ELSE measconfig
                /\ committed' = Some([handle |-> dev_handle, config |-> new])
                /\ calls' = [NoCalls EXCEPT !.commit = 1]
                /\ Return

set_integration_time ==
    \E duration \in Durations, c \in ConfigArgs :
        SetField("set_integration_time", "m_IntegrationTime", duration, c)

set_trigger_mode ==
    \E mode \in Modes, c \in ConfigArgs :
        SetField("set_trigger_mode", "m_Trigger_m_Mode", mode, c)

set_source_type ==
    \E mode \in Modes, c \in ConfigArgs :
        SetField("set_source_type", "m_Trigger_m_SourceType", mode, c)

set_scan_averages ==
    \E n \in ScanCounts, c \in ConfigArgs :
        SetField("set_scan_averages", "m_NrAverages", n, c)

\* ------------------------------------------------------ close, with-blocks

\* What close reads and writes, as one value.
CloseState == [dev_handle |-> dev_handle, pixels |-> pixels,
               wavelength |-> wavelength, serial_number |-> serial_number,
               measconfig |-> measconfig, globals |-> globals,
               committed |-> committed, calls |-> calls, out |-> out,
               exc |-> exc]

\* `if self.dev_handle:` - None and 0 are false.
Truthy(h) == h # None /\ h # Some(0)

\* A close that releases the handle it holds, or does not hold, at every call.
close_post_release(s) ==
    [s EXCEPT !.out = TRUE,
              !.calls = [NoCalls EXCEPT !.close = 1, !.release = 1],
              !.dev_handle = None,
              !.exc = "none"]

\* close(): prints when it holds a handle, and nothing else.
close_post(s) ==
    [s EXCEPT !.out = Truthy(s.dev_handle),
              !.calls = [NoCalls EXCEPT !.close = 1],
              !.exc = "none"]

\* The body of close() applied to the state, less exc.
CloseBody ==
    LET s == close_post(CloseState)
    IN  /\ dev_handle' = s.dev_handle
        /\ pixels' = s.pixels
        /\ wavelength' = s.wavelength
        /\ serial_number' = s.serial_number
        /\ measconfig' = s.measconfig
        /\ globals' = s.globals
        /\ committed' = s.committed
        /\ calls' = s.calls
        /\ out' = s.out
        /\ closed' = (closed \/ dev_handle # None)
        /\ ret' = None
        /\ UNCHANGED <<devices, scanDone, loopVars>>

close ==
    /\ pc = "idle"
    /\ op' = Call("close", 0, "default")
    /\ CloseBody
    /\ exc' = close_post(CloseState).exc
    /\ pc' = "idle"
    /\ UNCHANGED scopeDepth

__enter__ ==
    /\ pc = "idle"
    /\ scopeDepth < MaxScopeDepth
    /\ scopeDepth' = scopeDepth + 1
    /\ op' = Call("__enter__", 0, "default")
    /\ ret' = Some("self")
    /\ calls' = NoCalls
    /\ out' = FALSE
    /\ Return
    /\ UNCHANGED <<selfVars, globals, devices, committed, scanDone,
                   loopVars, closed>>

\* An __exit__ that returns True: the exception in flight is dropped.
__exit__swallow ==
    /\ pc \in {"idle", "raising"}
    /\ scopeDepth > 0
    /\ scopeDepth' = scopeDepth - 1
    /\ op' = Call("__exit__", 0, "default")
    /\ CloseBody
    /\ exc' = "none"
    /\ pc' = "idle"

\* The with-block ends, normally (pc = "idle") or by an exception in flight.
\* __exit__ returns None, so the exception goes on.
__exit__ ==
    /\ pc \in {"idle", "raising"}
    /\ scopeDepth > 0
    /\ scopeDepth' = scopeDepth - 1
    /\ op' = Call("__exit__", 0, "default")
    /\ CloseBody
    /\ IF pc = "raising"
       THEN /\ exc' = exc
            /\ pc' = IF scopeDepth - 1 > 0 THEN "raising" ELSE "idle"
       ELSE /\ exc' = "none"
            /\ pc' = "idle"

Next ==
    \/ init
    \/ wavelengths
    \/ measure
    \/ measure_timing
    \/ ScanCompletes
    \/ PollScan
    \/ GetScopeData
    \/ set_integration_time
    \/ set_trigger_mode
    \/ set_source_type
    \/ set_scan_averages
    \/ close
    \/ __enter__
    \/ __exit__

Spec == Init /\ [][Next]_vars

\* ----------------------------------------------------------------- claims

Setters == {"set_integration_time", "set_trigger_mode", "set_source_type",
            "set_scan_averages"}
Measurements == {"measure", "measure_timing"}

\* The MeasConfigType field a setter assigns.
FieldOf(name) ==
    CASE name = "set_integration_time" -> "m_IntegrationTime"
      [] name = "set_trigger_mode" -> "m_Trigger_m_Mode"
      [] name = "set_source_type" -> "m_Trigger_m_SourceType"
      [] name = "set_scan_averages" -> "m_NrAverages"

\* The method has ended: it returned, or raised.
Ended == pc \in {"idle", "raising"}

\* The specification's states, read off the driver.
Uninitialized == dev_handle = None
Closed == closed
Ready == dev_handle # None /\ ~closed

\* C1: on a driver that was never initialised, measure, measure_timing and the
\* four setters fail with NotInitializedError and issue neither a
\* start_acquisition (AVS_Measure) nor a commit_config (AVS_PrepareMeasure).
C1_NotInitialized ==
    (Uninitialized /\ op.name \in Measurements \cup Setters) =>
        /\ calls.start = 0
        /\ calls.commit = 0
        /\ Ended => exc = "NotInitializedError"

\* C2: once close() has run on an initialised driver, every later measure,
\* measure_timing, wavelengths or setter fails with NotInitializedError (so
\* the driver never works again).
C2_ClosedTerminal ==
    (Closed /\ op.name \in Measurements \cup Setters \cup {"wavelengths"} /\ Ended) =>
        exc = "NotInitializedError"

\* C3: close is idempotent: in every state between two calls, a second close
\* right after a first raises nothing, leaves the state the first one left,
\* and releases nothing.
C3_CloseIdempotent ==
    pc = "idle" =>
        LET once == close_post(CloseState)
            twice == close_post(once)
        IN  /\ once.exc = "none"
            /\ twice.exc = "none"
            /\ twice = once
            /\ twice.calls.release = 0

\* C3's case: close has run on a driver that holds a handle.
C3_Witness ==
    /\ op.name = "close"
    /\ dev_handle # None
    /\ out
    /\ calls.close = 1
    /\ exc = "none"

\* C4: a measure() whose device does not report ready gives up (with
\* AcquisitionTimeoutError) within a bound on its polling: whatever MaxPolls
\* is, measure() is never still polling an unready device after MaxPolls polls.
C4_MeasureTimesOut ==
    (Ready /\ op.name = "measure" /\ pc = "polling" /\ ~scanDone) =>
        calls.poll < MaxPolls

\* C5: with no device enumerated, init fails with NoDeviceFoundError, does not
\* activate anything, and neither the driver nor `globals` holds a handle.
C5_NoDeviceFound ==
    (devices = <<>> /\ op.name = "init" /\ Ended) =>
        /\ exc = "NoDeviceFoundError"
        /\ calls.activate = 0
        /\ dev_handle = None
        /\ globals.dev_handle = None

\* C6 as stated: after every setter call on a Ready driver, one commit was
\* issued, the configuration last committed is the driver's in-memory one, and
\* the field set holds the value of the call.
C6_LastWriteWins ==
    (Ready /\ op.name \in Setters /\ Ended) =>
        /\ calls.commit = 1
        /\ committed = Some([handle |-> dev_handle, config |-> measconfig[1]])
        /\ measconfig[1][FieldOf(op.name)] = op.value

\* C6 amended: a setter call on an initialised driver issues one commit and
\* raises nothing.  Called without measconfig=, it sets its field of the
\* driver's configuration to its argument, leaves the other fields, and commits
\* that configuration.  Called with a configuration of the caller's, it sets
\* the field there, commits that one, and leaves the driver's as it was.
C6_OwnConfigLastWriteWins ==
    [][ (op'.name \in Setters /\ dev_handle # None) =>
          /\ calls'.commit = 1
          /\ exc' = "none"
          /\ committed'[1].handle = dev_handle
          /\ IF op'.cfg = "default"
             THEN /\ measconfig' =
                        Some([measconfig[1] EXCEPT ![FieldOf(op'.name)] = op'.value])
                  /\ committed'[1].config = measconfig'[1]
             ELSE /\ measconfig' = measconfig
                  /\ committed'[1].config =
                        [otherconfig EXCEPT ![FieldOf(op'.name)] = op'.value]
      ]_vars

\* C6's case: set_scan_averages(10) has run on a Ready driver's own
\* configuration, and the device holds 10.
C6_Witness ==
    /\ Ready
    /\ op = Call("set_scan_averages", 10, "default")
    /\ measconfig[1].m_NrAverages = 10
    /\ committed[1].config.m_NrAverages = 10
    /\ calls.commit = 1

\* C7 as stated, with the region's stop pixel 1660 taken in: measure() on a
\* Ready driver returns ROI_STOP - ROI_START + 1 intensities, from pixel
\* ROI_START on.
C7_RoiLength ==
    (Ready /\ op.name = "measure" /\ pc = "idle" /\ ret # None) =>
        /\ ret[1].data.len = ROI_STOP - ROI_START + 1
        /\ ret[1].data.off = ROI_START

\* C7 amended: measure() on a Ready driver returns the raw buffer's elements
\* ROI_START .. ROI_STOP - 1 that exist: element i is raw intensity
\* ROI_START + i, and the length is min(ROI_STOP, pixels) - ROI_START (0 below
\* ROI_START pixels), which is 1265 for 2048 pixels.
C7_RoiSlice ==
    (Ready /\ op.name = "measure" /\ pc = "idle" /\ ret # None) =>
        LET data == ret[1].data
            n == pixels[1]
        IN  /\ data.src = <<"scan", ret[1].timestamp>>
            /\ data.off = Min(ROI_START, n)
            /\ data.len = Max(0, Min(ROI_STOP, n) - Min(ROI_START, n))
            /\ n = 2048 => (data.off = 395 /\ data.len = 1265)

\* C7's case: a measurement of the 2048-pixel device has returned.
C7_Witness ==
    /\ Ready
    /\ op.name = "measure"
    /\ pc = "idle"
    /\ ret # None
    /\ pixels = Some(2048)
    /\ ret[1].data.len = 1265

\* C8: on an initialised driver the in-memory and the committed configuration
\* have averages >= 1, integration time > 0 and stop pixel = pixels - 1.
C8_ConfigInvariant ==
    dev_handle # None =>
        \A cfg \in {measconfig[1], committed[1].config} :
            /\ cfg.m_NrAverages >= 1
            /\ cfg.m_IntegrationTime > 0
            /\ cfg.m_StopPixel = pixels[1] - 1

C10_CallOrder ==
    [][ op'.name \in Measurements =>
          /\ calls'.start = 1
          /\ calls'.commit = 0
          /\ calls'.read <= 1
          /\ calls'.poll > calls.poll => (calls.start = 1 /\ pc = "polling")
          /\ calls'.read = 1 => (dataready' /\ calls'.poll >= 1)
          /\ calls'.read > calls.read => (dataready /\ pc = "reading")
          /\ pc' \in {"idle", "raising"} => calls'.read = 1
          /\ UNCHANGED <<selfVars, globals, committed>>
      ]_vars

\* C10's case: a measure_timing() that polled an unready device, then a ready
\* one, has read its result and returned.
C10_Witness ==
    /\ op.name = "measure_timing"
    /\ pc = "idle"
    /\ exc = "none"
    /\ ret # None
    /\ calls.start = 1
    /\ calls.poll >= 2
    /\ calls.read = 1
====
